---------------------------- MODULE Spec2Model ----------------------------
(***************************************************************************)
(* hydrocomp: alignment of a modeled and an observed timeseries on their   *)
(* common date range (helpers.py), the comparison statistics               *)
(* (statistics.py) and the assembly of the comparison record               *)
(* (hydrocomp.py: compare, main).                                          *)
(*                                                                         *)
(* Dates are day numbers (integers); the difference of two dates is the    *)
(* number of days between them.  A numpy float is an exact fraction        *)
(* [n, d]: d > 0 is a finite value in lowest terms, d = 0 is a non-finite  *)
(* value (n = 1: inf, n = -1: -inf, n = 0: nan).  Arrays are sequences,    *)
(* indexed from 1 where Python indexes from 0.                             *)
(***************************************************************************)
EXTENDS Integers, Sequences, FiniteSets

---------------------------------------------------------------------------
(* Bounds of the checked instances.                                        *)

\* dates are drawn from 1 .. MaxDate, requested windows from 0 .. MaxDate + 1
MaxDate == 4
\* longest dates / data array read from a file
MaxLen == 3
\* longest value array handed to compare directly
MaxPoints == 2
\* longest pair of arrays handed to the functions of statistics.py
MaxSample == 3
\* most key presses while the plots are shown
MaxKeys == 3
\* most data rows of a WATER output file
MaxRows == 2
\* last day of the gap-free daily series
LastDay == 15

---------------------------------------------------------------------------
(* Floating point values as exact fractions.                               *)

Abs(a) == IF a < 0 THEN -a ELSE a

Sign(a) == IF a < 0 THEN -1 ELSE IF a > 0 THEN 1 ELSE 0

RECURSIVE GCD(_, _)
GCD(a, b) == IF b = 0 THEN a ELSE GCD(b, a % b)

\* the float n/d; a zero denominator gives inf, -inf or nan as numpy does
Frac(n, d) ==
    IF d = 0 THEN [n |-> Sign(n), d |-> 0]
    ELSE LET g == GCD(Abs(n), Abs(d))
             s == Sign(d)
         IN  [n |-> (s * n) \div g, d |-> (s * d) \div g]

Float(v) == [n |-> v, d |-> 1]

IsFinite(a) == a.d # 0

NaN == [n |-> 0, d |-> 0]

FAdd(a, b) ==
    IF a.d = 0 /\ b.d = 0
    THEN (IF a.n = b.n THEN a ELSE NaN)
    ELSE Frac(a.n * b.d + b.n * a.d, a.d * b.d)

FNeg(a) == [n |-> -a.n, d |-> a.d]

FSub(a, b) == FAdd(a, FNeg(b))

FMul(a, b) == Frac(a.n * b.n, a.d * b.d)

\* a division by zero is inf, -inf or nan by the sign of the dividend
FDiv(a, b) ==
    IF b.d # 0 /\ b.n = 0 THEN [n |-> Sign(a.n), d |-> 0]
    ELSE Frac(a.n * b.d * Sign(b.n), a.d * Abs(b.n))

\* Python's None, and a value that is set: an optional value is a sequence
\* of length 0 or 1
None == <<>>

Some(v) == <<v>>

---------------------------------------------------------------------------
(* Outcomes of a call: it returns a value or raises an exception.          *)

Return(v) == [outcome |-> "returned", value |-> v]

Raise(e) == [outcome |-> e]

\* the call has not been made
Pending == [outcome |-> "pending"]

Returned(r) == r.outcome = "returned"

---------------------------------------------------------------------------
(* helpers.py                                                              *)

\* np.where(dates == d)[0]: the positions of dates holding d
\* a lookup that keeps the first of several matching positions
where_first(dates, d) ==
    {i \in 1..Len(dates) :
        dates[i] = d /\ \A j \in 1..Len(dates) : dates[j] = d => i <= j}

\* a lookup that falls back to the nearest later date when d is missing
where_nearest(dates, d) ==
    IF \E i \in 1..Len(dates) : dates[i] = d
    THEN {i \in 1..Len(dates) : dates[i] = d}
    ELSE {i \in 1..Len(dates) :
             dates[i] > d /\ \A j \in 1..Len(dates) : dates[j] > d => dates[i] <= dates[j]}

\* the positions np.where(dates == d)[0] finds
where(dates, d) == {i \in 1..Len(dates) : dates[i] = d}

\* resolved_start taking the nearer end of dates for a start after the last
resolved_start_nearest(dates, start_date) ==
    IF start_date < dates[1] THEN dates[1]
    ELSE IF start_date > dates[Len(dates)] THEN dates[Len(dates)]
    ELSE start_date

\* the start_date subset_data looks up: a start outside [dates[0], dates[-1]]
\* becomes dates[0]
resolved_start(dates, start_date) ==
    IF start_date < dates[1] \/ start_date > dates[Len(dates)]
    THEN dates[1] ELSE start_date

\* resolved_end taking the nearer end of dates for an end before the first
resolved_end_nearest(dates, end_date) ==
    IF end_date > dates[Len(dates)] THEN dates[Len(dates)]
    ELSE IF end_date < dates[1] THEN dates[1]
    ELSE end_date

\* the end_date subset_data looks up: an end outside [dates[0], dates[-1]]
\* becomes dates[-1]
resolved_end(dates, end_date) ==
    IF end_date > dates[Len(dates)] \/ end_date < dates[1]
    THEN dates[Len(dates)] ELSE end_date

Min(a, b) == IF a < b THEN a ELSE b

\* a slice between the two positions in either order
slice_either_order(array, s, e) ==
    IF s > e THEN SubSeq(array, e, Min(s, Len(array)))
    ELSE SubSeq(array, s, Min(e, Len(array)))

\* slice without the + 1: the slice [start_idx : end_idx]
slice_exclusive(array, s, e) ==
    IF s > Min(e - 1, Len(array)) THEN <<>>
    ELSE SubSeq(array, s, Min(e - 1, Len(array)))

\* the slice [start_idx : end_idx + 1] of an array, for the 1-based
\* positions s and e of both ends; a Python slice stops at the array's end
slice(array, s, e) ==
    IF s > Min(e, Len(array)) THEN <<>> ELSE SubSeq(array, s, Min(e, Len(array)))

\* a length check that misses data shorter than dates
lengths_differ_one_sided(dates, data) == Len(dates) < Len(data)

\* the length check of subset_data
lengths_differ(dates, data) == Len(dates) # Len(data)

\* subset_data slicing data from its first element, not from start_idx
subset_data_unpaired(dates, data, start_date, end_date) ==
    IF lengths_differ(dates, data) THEN Raise("ValueError")
    ELSE IF Len(dates) = 0 THEN Raise("IndexError")
    ELSE LET sd == resolved_start(dates, start_date)
             ed == resolved_end(dates, end_date)
             si == where(dates, sd)
             ei == where(dates, ed)
         IN  IF Cardinality(si) # 1 \/ Cardinality(ei) # 1
             THEN Raise("TypeError")
             ELSE LET start_idx == CHOOSE i \in si : TRUE
                      end_idx == CHOOSE i \in ei : TRUE
                  IN  Return([dates |-> slice(dates, start_idx, end_idx),
                              data |-> slice(data, 1, end_idx - start_idx + 1)])

subset_data(dates, data, start_date, end_date) ==
    IF lengths_differ(dates, data) THEN Raise("ValueError")
    ELSE IF Len(dates) = 0 THEN Raise("IndexError")
    ELSE LET sd == resolved_start(dates, start_date)
             ed == resolved_end(dates, end_date)
             si == where(dates, sd)
             ei == where(dates, ed)
         IN  \* int() of an index array that holds no or several positions
             IF Cardinality(si) # 1 \/ Cardinality(ei) # 1
             THEN Raise("TypeError")
             ELSE LET start_idx == CHOOSE i \in si : TRUE
                      end_idx == CHOOSE i \in ei : TRUE
                  IN  Return([dates |-> slice(dates, start_idx, end_idx),
                              data |-> slice(data, start_idx, end_idx)])

\* common_start without its comparison: the first date of the model
common_start_model(model_dates, observed_dates) == model_dates[1]

\* the later of the two first dates
common_start(model_dates, observed_dates) ==
    IF observed_dates[1] > model_dates[1]
    THEN observed_dates[1] ELSE model_dates[1]

\* common_end with its branches exchanged: the later of the two last dates
common_end_later(model_dates, observed_dates) ==
    IF observed_dates[Len(observed_dates)] > model_dates[Len(model_dates)]
    THEN observed_dates[Len(observed_dates)]
    ELSE model_dates[Len(model_dates)]

\* the earlier of the two last dates
common_end(model_dates, observed_dates) ==
    IF observed_dates[Len(observed_dates)] > model_dates[Len(model_dates)]
    THEN model_dates[Len(model_dates)]
    ELSE observed_dates[Len(observed_dates)]

\* find_start_end_dates returning its pair in the other order
find_start_end_dates_swapped(model_dates, observed_dates) ==
    IF Len(observed_dates) = 0 \/ Len(model_dates) = 0
    THEN Raise("IndexError")
    ELSE Return([start_date |-> common_end(model_dates, observed_dates),
                 end_date |-> common_start(model_dates, observed_dates)])

find_start_end_dates(model_dates, observed_dates) ==
    IF Len(observed_dates) = 0 \/ Len(model_dates) = 0
    THEN Raise("IndexError")
    ELSE Return([start_date |-> common_start(model_dates, observed_dates),
                 end_date |-> common_end(model_dates, observed_dates)])

---------------------------------------------------------------------------
(* statistics.py                                                           *)

RECURSIVE FSum(_)
FSum(a) == IF Len(a) = 0 THEN Float(0) ELSE FAdd(a[1], FSum(Tail(a)))

\* np.mean: the mean of an empty array is nan
mean(a) == FDiv(FSum(a), Float(Len(a)))

square(a) == [i \in 1..Len(a) |-> FMul(a[i], a[i])]

\* the error with its sign reversed
absolute_error_reversed(x, x_true) ==
    [i \in 1..Len(x) |-> FSub(x_true[i], x[i])]

absolute_error(x, x_true) == [i \in 1..Len(x) |-> FSub(x[i], x_true[i])]

\* the mean of the errors, not squared
mean_squared_error_unsquared(x, x_true) == mean(absolute_error(x, x_true))

mean_squared_error(x, x_true) == mean(square(absolute_error(x, x_true)))

\* the error relative to x instead of x_true
relative_error_to_x(x, x_true) ==
    LET error == absolute_error(x, x_true)
    IN  [i \in 1..Len(x) |-> FDiv(error[i], x[i])]

relative_error(x, x_true) ==
    LET error == absolute_error(x, x_true)
    IN  [i \in 1..Len(x) |-> FDiv(error[i], x_true[i])]

percent_error(x, x_true) ==
    LET error == relative_error(x, x_true)
    IN  [i \in 1..Len(x) |-> FMul(error[i], Float(100))]

percent_difference(x, x_true) ==
    LET avg == [i \in 1..Len(x) |-> FDiv(FAdd(x[i], x_true[i]), Float(2))]
    IN  [i \in 1..Len(x) |->
            FMul(FDiv(FSub(x[i], x_true[i]), avg[i]), Float(100))]

\* the deviations of an array from its mean
deviations(a) == [i \in 1..Len(a) |-> FSub(a[i], mean(a))]

\* np.corrcoef(modeled, observed)[0, 1] ** 2: the squared covariance over
\* the product of the variances (nan when either variance is 0)
r_squared(modeled, observed) ==
    LET dm == deviations(modeled)
        do == deviations(observed)
        cov == FSum([i \in 1..Len(modeled) |-> FMul(dm[i], do[i])])
    IN  FDiv(FMul(cov, cov), FMul(FSum(square(dm)), FSum(square(do))))

\* Python's sum() of an empty array is the int 0, and 0/0 of two ints raises
\* the ratio added to 1
nash_sutcliffe_plus(modeled, observed) ==
    IF Len(observed) = 0 THEN Raise("ZeroDivisionError")
    ELSE LET numerator ==
                 FSum(square([i \in 1..Len(modeled) |->
                                 FSub(observed[i], modeled[i])]))
             denominator == FSum(square(deviations(observed)))
         IN  Return(FAdd(Float(1), FDiv(numerator, denominator)))

\* the ratio alone, not taken from 1
nash_sutcliffe_ratio(modeled, observed) ==
    IF Len(observed) = 0 THEN Raise("ZeroDivisionError")
    ELSE LET numerator ==
                 FSum(square([i \in 1..Len(modeled) |->
                                 FSub(observed[i], modeled[i])]))
             denominator == FSum(square(deviations(observed)))
         IN  Return(FDiv(numerator, denominator))

nash_sutcliffe(modeled, observed) ==
    IF Len(observed) = 0 THEN Raise("ZeroDivisionError")
    ELSE LET numerator ==
                 FSum(square([i \in 1..Len(modeled) |->
                                 FSub(observed[i], modeled[i])]))
             denominator == FSum(square(deviations(observed)))
         IN  Return(FSub(Float(1), FDiv(numerator, denominator)))

---------------------------------------------------------------------------
(* hydrocomp.py: compare                                                   *)

\* d[k] = v on a Python dict
Put(d, k, v) == [x \in (DOMAIN d) \cup {k} |-> IF x = k THEN v ELSE d[x]]

\* the stats dictionary as created: mean_squared_error is no key of it yet
empty_stats ==
    [relative_error |-> None, percent_error |-> None,
     percent_difference |-> None, r_squared_coeff |-> None,
     nash_sutcliffe_coeff |-> None]

\* computed_stats without the assignment of mean_squared_error
computed_stats_no_mse(modeled_parameter, observed_parameter) ==
    LET s1 == Put(empty_stats, "relative_error",
                  Some(relative_error(modeled_parameter, observed_parameter)))
        s2 == Put(s1, "percent_error",
                  Some(percent_error(modeled_parameter, observed_parameter)))
        s3 == Put(s2, "percent_difference",
                  Some(percent_difference(modeled_parameter, observed_parameter)))
    IN  Put(s3, "r_squared_coeff",
            Some(r_squared(modeled_parameter, observed_parameter)))

\* the statistics before nash_sutcliffe, assigned in the order of the source
computed_stats(modeled_parameter, observed_parameter) ==
    LET s1 == Put(empty_stats, "relative_error",
                  Some(relative_error(modeled_parameter, observed_parameter)))
        s2 == Put(s1, "percent_error",
                  Some(percent_error(modeled_parameter, observed_parameter)))
        s3 == Put(s2, "percent_difference",
                  Some(percent_difference(modeled_parameter, observed_parameter)))
        s4 == Put(s3, "mean_squared_error",
                  Some(mean_squared_error(modeled_parameter, observed_parameter)))
    IN  Put(s4, "r_squared_coeff",
            Some(r_squared(modeled_parameter, observed_parameter)))

\* the keys of a stats dictionary that hold a value
populated(stats) == {k \in DOMAIN stats : stats[k] # None}

\* compare raises e after it has assigned the statistics in done
Failed(e, done) == [outcome |-> e, computed |-> done]

\* the timestep taken from the last two dates
timestep_last(dates) == dates[Len(dates)] - dates[Len(dates) - 1]

\* dates[1] - dates[0]
timestep(dates) == dates[2] - dates[1]

\* a timestep of 0 days when dates has no second element
dates_difference_or_zero(dates) ==
    IF Len(dates) < 2 THEN Return(0) ELSE Return(timestep(dates))

\* the evaluation of dates[1] - dates[0]: indexing dates[1] (or dates[0])
\* raises IndexError when dates has fewer than two elements
dates_difference(dates) ==
    IF Len(dates) < 2 THEN Raise("IndexError") ELSE Return(timestep(dates))

\* a length check that misses a modeled array shorter than the observed one
length_mismatch_one_sided(modeled_parameter, observed_parameter, dates) ==
    Len(modeled_parameter) > Len(observed_parameter)

\* the length check of compare
length_mismatch(modeled_parameter, observed_parameter, dates) ==
    Len(modeled_parameter) # Len(observed_parameter)

compare(parameter_name, model_name, observed_name, modeled_parameter, observed_parameter, dates) ==
    IF length_mismatch(modeled_parameter, observed_parameter, dates)
    THEN Failed("ValueError", {})
    ELSE IF ~Returned(dates_difference(dates))
    THEN Failed(dates_difference(dates).outcome, {})
    ELSE LET stats == computed_stats(modeled_parameter, observed_parameter)
             ns == nash_sutcliffe(modeled_parameter, observed_parameter)
         IN  IF ~Returned(ns) THEN Failed(ns.outcome, populated(stats))
             ELSE Return(
                 [parameter_name |-> parameter_name,
                  model_name |-> model_name,
                  observed_name |-> observed_name,
                  modeled_parameter |-> modeled_parameter,
                  observed_parameter |-> observed_parameter,
                  dates |-> dates,
                  timestep |-> dates_difference(dates).value,
                  stats |-> Some(Put(stats, "nash_sutcliffe_coeff",
                                     Some(ns.value)))])

---------------------------------------------------------------------------
(* The inputs of the checked instances.                                    *)

\* the arrays of at most maxlen elements of S
Arrays(S, maxlen) == UNION {[1..n -> S] : n \in 0..maxlen}

IsAscending(dates) == \A i \in 1..(Len(dates) - 1) : dates[i] <= dates[i + 1]

IsStrictlyAscending(dates) ==
    \A i \in 1..(Len(dates) - 1) : dates[i] < dates[i + 1]

\* the dates arrays a reader hands over: ascending, a date may repeat
DateArrays == {d \in Arrays(1..MaxDate, MaxLen) : IsAscending(d)}

\* the values of the arrays handed to compare directly
Values == {Float(0), Float(1), Float(2)}

\* n readings rising by 1 from first
Ramp(n, first) == [i \in 1..n |-> Float(first + i - 1)]

\* the data arrays of n readings
Readings(n) == {Ramp(n, first) : first \in {1, 2}}

\* the values of the arrays handed to the functions of statistics.py
StatValues == {Float(-1), Float(0), Float(1), Float(2)}

\* the sample arrays of statistics.main
model_data == <<Frac(555, 10), Frac(621, 10), Frac(653, 10), Frac(644, 10), Frac(612, 10)>>

observed_data == <<Frac(557, 10), Frac(620, 10), Frac(655, 10), Frac(647, 10), Frac(611, 10)>>

\* the pairs of arrays of equal length handed to statistics.py
SamplePairs ==
    {<<model_data, observed_data>>}
        \cup UNION {[1..n -> StatValues] \X [1..n -> StatValues] : n \in 0..MaxSample}

\* the gap-free daily dates first .. last
Daily(first, last) == [i \in 1..(last - first + 1) |-> first + i - 1]

---------------------------------------------------------------------------
(* hydrocomp.py: main, and the direct calls of the functions.              *)

VARIABLES
    pc,                 \* the position of the caller
    water_dates,        \* water_data['date'], the dates of the modeled series
    water_parameter,    \* the values of the modeled series
    nwis_dates,         \* nwis_data['dates'], the dates of the observed series
    nwis_parameter,     \* the values of the observed series
    window,             \* start_date and end_date
    water_data_subset,  \* the outcome of subsetting the modeled series
    nwis_data_subset,   \* the outcome of subsetting the observed series
    resubset,           \* the outcome of subsetting a subset again
    stats_out,          \* the statistics computed by statistics.py alone
    comp_data,          \* the outcome of compare
    water_file,         \* the data rows of a WATER output file
    water_data,         \* the outcome of read_water
    span_visible,       \* span.visible of the span selector
    keys                \* the keys pressed so far

vars == <<pc, water_dates, water_parameter, nwis_dates, nwis_parameter, window,
          water_data_subset, nwis_data_subset, resubset, stats_out, comp_data,
          water_file, water_data, span_visible, keys>>

files == <<water_file, water_data>>

gui == <<span_visible, keys>>

inputs == <<water_dates, water_parameter, nwis_dates, nwis_parameter>>

NoResults ==
    /\ water_data_subset = Pending
    /\ nwis_data_subset = Pending
    /\ resubset = Pending
    /\ stats_out = Pending
    /\ comp_data = Pending
    /\ water_file = <<>>
    /\ water_data = Pending
    /\ span_visible = FALSE
    /\ keys = <<>>

\* main after both files are read: two series, each with one value per date
Init ==
    /\ pc = "find_start_end_dates"
    /\ water_dates \in DateArrays
    /\ water_parameter \in Readings(Len(water_dates))
    /\ nwis_dates \in DateArrays
    /\ nwis_parameter \in Readings(Len(nwis_dates))
    /\ window = Pending
    /\ NoResults

\* where main goes after a call: on, or to one of its except clauses
\* (IndexError and ValueError are caught, anything else leaves main)
after(r, next) ==
    IF Returned(r) THEN next
    ELSE IF r.outcome \in {"IndexError", "ValueError"} THEN "except"
    ELSE "uncaught"

FindStartEndDates ==
    /\ pc = "find_start_end_dates"
    /\ window' = find_start_end_dates(water_dates, nwis_dates)
    /\ pc' = after(window', "subset_water")
    /\ UNCHANGED <<files, gui, inputs, stats_out, water_data_subset, nwis_data_subset, resubset, comp_data>>

\* a subset_data that trims the caller's arrays to the window in place
SubsetWater_InPlace ==
    /\ pc = "subset_water"
    /\ water_data_subset' = subset_data(water_dates, water_parameter, window.value.start_date, window.value.end_date)
    /\ water_dates' = IF Returned(water_data_subset') THEN water_data_subset'.value.dates ELSE water_dates
    /\ water_parameter' = IF Returned(water_data_subset') THEN water_data_subset'.value.data ELSE water_parameter
    /\ pc' = after(water_data_subset', "subset_nwis")
    /\ UNCHANGED <<files, gui, nwis_dates, nwis_parameter, stats_out, window, nwis_data_subset, resubset, comp_data>>

SubsetWater ==
    /\ pc = "subset_water"
    /\ water_data_subset' = subset_data(water_dates, water_parameter, window.value.start_date, window.value.end_date)
    /\ pc' = after(water_data_subset', "subset_nwis")
    /\ UNCHANGED <<files, gui, inputs, stats_out, window, nwis_data_subset, resubset, comp_data>>

SubsetNwis ==
    /\ pc = "subset_nwis"
    /\ nwis_data_subset' = subset_data(nwis_dates, nwis_parameter, window.value.start_date, window.value.end_date)
    /\ pc' = after(nwis_data_subset', "compare")
    /\ UNCHANGED <<files, gui, inputs, stats_out, window, water_data_subset, resubset, comp_data>>

Compare ==
    /\ pc = "compare"
    /\ comp_data' = compare("discharge", "model", "observed", water_data_subset.value.data, nwis_data_subset.value.data, nwis_data_subset.value.dates)
    /\ pc' = after(comp_data', "print_comp_data")
    /\ UNCHANGED <<files, gui, inputs, stats_out, window, water_data_subset, nwis_data_subset, resubset>>

Next == FindStartEndDates \/ SubsetWater \/ SubsetNwis \/ Compare

Spec == Init /\ [][Next]_vars

---------------------------------------------------------------------------
(* main on two gap-free daily series.                                      *)

InitDaily ==
    /\ pc = "find_start_end_dates"
    /\ \E first \in 1..LastDay : \E last \in first..LastDay :
           /\ water_dates = Daily(first, last)
           /\ water_parameter = Ramp(last - first + 1, 1)
    /\ \E first \in 1..LastDay : \E last \in first..LastDay :
           /\ nwis_dates = Daily(first, last)
           /\ nwis_parameter = Ramp(last - first + 1, 2)
    /\ window = Pending
    /\ NoResults

SpecDaily == InitDaily /\ [][Next]_vars

---------------------------------------------------------------------------
(* subset_data called directly, on any dates and data arrays and any       *)
(* window, and called again on the subset it returned.  The arrays of the  *)
(* call are water_dates and water_parameter.                               *)

InitSubset ==
    /\ pc = "subset_data"
    /\ water_dates \in DateArrays
    /\ water_parameter \in UNION {Readings(n) : n \in 0..MaxLen}
    /\ nwis_dates = <<>>
    /\ nwis_parameter = <<>>
    /\ \E start_date \in 0..(MaxDate + 1) : \E end_date \in 0..(MaxDate + 1) :
           window = Return([start_date |-> start_date, end_date |-> end_date])
    /\ NoResults

SubsetData ==
    /\ pc = "subset_data"
    /\ water_data_subset' = subset_data(water_dates, water_parameter, window.value.start_date, window.value.end_date)
    /\ pc' = IF Returned(water_data_subset') THEN "subset_again" ELSE "raised"
    /\ UNCHANGED <<files, gui, inputs, stats_out, window, nwis_data_subset, resubset, comp_data>>

SubsetAgain ==
    /\ pc = "subset_again"
    /\ resubset' = subset_data(water_data_subset.value.dates, water_data_subset.value.data, window.value.start_date, window.value.end_date)
    /\ pc' = IF Returned(resubset') THEN "done" ELSE "raised"
    /\ UNCHANGED <<files, gui, inputs, stats_out, window, water_data_subset, nwis_data_subset, comp_data>>

NextSubset == SubsetData \/ SubsetAgain

SpecSubset == InitSubset /\ [][NextSubset]_vars

---------------------------------------------------------------------------
(* compare called directly: water_parameter is modeled_parameter,          *)
(* nwis_parameter is observed_parameter and nwis_dates is dates.           *)

InitCompare ==
    /\ pc = "compare"
    /\ water_dates = <<>>
    /\ water_parameter \in Arrays(Values, MaxPoints)
    /\ nwis_dates \in DateArrays
    /\ nwis_parameter \in Arrays(Values, MaxPoints)
    /\ window = Pending
    /\ NoResults

CallCompare ==
    /\ pc = "compare"
    /\ comp_data' = compare("discharge", "model", "observed", water_parameter, nwis_parameter, nwis_dates)
    /\ pc' = IF Returned(comp_data') THEN "done" ELSE "raised"
    /\ UNCHANGED <<files, gui, inputs, stats_out, window, water_data_subset, nwis_data_subset, resubset>>

NextCompare == CallCompare

SpecCompare == InitCompare /\ [][NextCompare]_vars

---------------------------------------------------------------------------
(* statistics.py: main, the seven statistics of a pair of arrays, followed *)
(* by compare on the same pair with one date per value.  water_parameter   *)
(* is x / modeled, nwis_parameter is x_true / observed.                    *)

InitStats ==
    /\ pc = "statistics"
    /\ water_dates = <<>>
    /\ \E pair \in SamplePairs :
           /\ water_parameter = pair[1]
           /\ nwis_parameter = pair[2]
           /\ nwis_dates = Daily(1, Len(pair[2]))
    /\ window = Pending
    /\ NoResults

Statistics ==
    /\ pc = "statistics"
    /\ stats_out' =
           [absolute_error |-> absolute_error(water_parameter, nwis_parameter),
            relative_error |-> relative_error(water_parameter, nwis_parameter),
            mean_squared_error |-> mean_squared_error(water_parameter, nwis_parameter),
            percent_error |-> percent_error(water_parameter, nwis_parameter),
            percent_difference |-> percent_difference(water_parameter, nwis_parameter),
            r_squared |-> r_squared(water_parameter, nwis_parameter),
            nash_sutcliffe |-> nash_sutcliffe(water_parameter, nwis_parameter)]
    /\ pc' = "compare"
    /\ UNCHANGED <<files, gui, inputs, window, water_data_subset, nwis_data_subset, resubset, comp_data>>

NextStats == Statistics \/ CallCompare

SpecStats == InitStats /\ [][NextStats]_vars

---------------------------------------------------------------------------
(* hydrocompgui.py: the span selector while the plots are shown.  Every    *)
(* key press runs toggle_selector; keys records the keys pressed.          *)

\* event.key of a key press: the four keys of toggle_selector and another
Keys == {"A", "a", "Q", "q", "x"}

\* a handler that only knows the upper case keys
span_visible_after_upper(visible, key) ==
    LET deactivated == IF key \in {"Q"} /\ visible THEN FALSE ELSE visible
    IN  IF key \in {"A"} /\ ~deactivated THEN TRUE ELSE deactivated

\* span.visible after the two if statements of toggle_selector
span_visible_after(visible, key) ==
    LET deactivated == IF key \in {"Q", "q"} /\ visible THEN FALSE ELSE visible
    IN  IF key \in {"A", "a"} /\ ~deactivated THEN TRUE ELSE deactivated

\* the span selector as made: span.visible = False
InitGui ==
    /\ pc = "show"
    /\ span_visible = FALSE
    /\ keys = <<>>
    /\ water_dates = <<>>
    /\ water_parameter = <<>>
    /\ nwis_dates = <<>>
    /\ nwis_parameter = <<>>
    /\ window = Pending
    /\ NoResults

toggle_selector(event) ==
    /\ pc = "show"
    /\ Len(keys) < MaxKeys
    /\ span_visible' = span_visible_after(span_visible, event.key)
    /\ keys' = Append(keys, event.key)
    /\ UNCHANGED <<pc, inputs, files, window, water_data_subset, nwis_data_subset, resubset, stats_out, comp_data>>

NextGui == \E key \in Keys : toggle_selector([key |-> key])

SpecGui == InitGui /\ [][NextGui]_vars

---------------------------------------------------------------------------
(* water.py: read_water on the data rows of a WATER output file.  A row is *)
(* its date field (None when it holds no m/d/yyyy date, as in a blank      *)
(* line) and its twelve parameter fields (None when float() rejects the    *)
(* field or the row has no such field).                                    *)

\* the parameter keys of water_data, in the order the row loop reads them
Parameters ==
    <<"discharge", "subsurface flow", "impervious flow", "infiltration excess",
      "initial abstracted flow", "overland flow", "pet", "aet",
      "average soil root zone", "average soil upper zone", "snow pack",
      "precipitation">>

\* the rows whose fields up to the p-th parameter are all read: float()
\* raises at the first field it rejects and the except clause drops the
\* rest of the row
RowsReadTo(rows, p) ==
    SelectSeq(rows, LAMBDA row : \A q \in 1..p : row.fields[q] # None)

\* the list of the p-th parameter after the row loop
Column(rows, p) ==
    [i \in 1..Len(RowsReadTo(rows, p)) |-> RowsReadTo(rows, p)[i].fields[p][1]]

\* the date list after the row loop: the date field of every row
DateColumn(rows) == [i \in 1..Len(rows) |-> rows[i].date]

read_water(rows) ==
    IF \E i \in 1..Len(rows) : DateColumn(rows)[i] = None
    THEN Raise("IndexError")
    ELSE Return([key \in {"date"} \cup {Parameters[p] : p \in DOMAIN Parameters} |->
                    IF key = "date"
                    THEN [i \in 1..Len(rows) |-> DateColumn(rows)[i][1]]
                    ELSE Column(rows, CHOOSE p \in DOMAIN Parameters : Parameters[p] = key)])

\* a row with the given date field whose parameter fields are numbers,
\* except the field at position bad (none when bad is 0)
Row(date, bad) ==
    [date |-> date,
     fields |-> [q \in DOMAIN Parameters |-> IF q = bad THEN None ELSE Some(Float(q))]]

Rows == {Row(date, bad) : date \in {None, Some(1), Some(2)}, bad \in 0..Len(Parameters)}

InitRead ==
    /\ pc = "read_water"
    /\ water_file \in Arrays(Rows, MaxRows)
    /\ water_data = Pending
    /\ span_visible = FALSE
    /\ keys = <<>>
    /\ water_dates = <<>>
    /\ water_parameter = <<>>
    /\ nwis_dates = <<>>
    /\ nwis_parameter = <<>>
    /\ window = Pending
    /\ water_data_subset = Pending
    /\ nwis_data_subset = Pending
    /\ resubset = Pending
    /\ stats_out = Pending
    /\ comp_data = Pending

ReadWater ==
    /\ pc = "read_water"
    /\ water_data' = read_water(water_file)
    /\ pc' = IF Returned(water_data') THEN "done" ELSE "raised"
    /\ UNCHANGED <<water_file, inputs, gui, window, water_data_subset, nwis_data_subset, resubset, stats_out, comp_data>>

NextRead == ReadWater

SpecRead == InitRead /\ [][NextRead]_vars

---------------------------------------------------------------------------
(* Properties of the alignment in main.                                    *)

Later(a, b) == CHOOSE m \in {a, b} : m >= a /\ m >= b

Earlier(a, b) == CHOOSE m \in {a, b} : m <= a /\ m <= b

First(dates) == dates[1]

Last(dates) == dates[Len(dates)]

\* two non-empty dates arrays whose ranges have a date in common
RangesOverlap(a, b) ==
    /\ Len(a) > 0
    /\ Len(b) > 0
    /\ Later(First(a), First(b)) <= Earlier(Last(a), Last(b))

\* the dates of an array that lie in lo .. hi
DatesWithin(dates, lo, hi) ==
    {dates[i] : i \in {j \in 1..Len(dates) : lo <= dates[j] /\ dates[j] <= hi}}

\* inside the common window the two arrays hold the same dates
SameSampling(a, b) ==
    LET lo == Later(First(a), First(b))
        hi == Earlier(Last(a), Last(b))
    IN  DatesWithin(a, lo, hi) = DatesWithin(b, lo, hi)

\* main has made both calls of subset_data, or has left before
PastSubsetting ==
    pc \notin {"find_start_end_dates", "subset_water", "subset_nwis"}

\* C1, as claimed, and read in its favour for series whose ranges overlap:
\* for any two ascending series, the two subsets that main takes on the
\* window of find_start_end_dates have the same dates, element by element
\* (and so the same length).
C1_AnyTwoSeries ==
    ( /\ RangesOverlap(water_dates, nwis_dates)
      /\ Returned(water_data_subset)
      /\ Returned(nwis_data_subset) )
        => water_data_subset.value.dates = nwis_data_subset.value.dates

\* C1, amended: for two strictly ascending series whose ranges overlap and
\* that hold the same dates inside the common window, both calls of
\* subset_data return, the two subsets have the same dates element by
\* element, and each subset has one value per date.
C1_AlignedSubsets ==
    ( /\ PastSubsetting
      /\ IsStrictlyAscending(water_dates)
      /\ IsStrictlyAscending(nwis_dates)
      /\ RangesOverlap(water_dates, nwis_dates)
      /\ SameSampling(water_dates, nwis_dates) )
        => /\ Returned(water_data_subset)
           /\ Returned(nwis_data_subset)
           /\ water_data_subset.value.dates = nwis_data_subset.value.dates
           /\ Len(water_data_subset.value.data) = Len(water_data_subset.value.dates)
           /\ Len(nwis_data_subset.value.data) = Len(nwis_data_subset.value.dates)

\* two series of different ranges, aligned on the two dates they share
C1_Witness ==
    /\ PastSubsetting
    /\ water_dates = <<1, 2, 3>>
    /\ nwis_dates = <<2, 3, 4>>
    /\ Returned(water_data_subset)
    /\ Returned(nwis_data_subset)
    /\ water_data_subset.value.dates = <<2, 3>>
    /\ nwis_data_subset.value.dates = <<2, 3>>

\* C2: for non-empty ascending dates arrays with overlapping ranges,
\* find_start_end_dates returns the later of the two first dates as the
\* start and the earlier of the two last dates as the end, also when the
\* first dates or the last dates are equal.
C2_CommonRange ==
    (pc # "find_start_end_dates" /\ RangesOverlap(water_dates, nwis_dates))
        => /\ Returned(window)
           /\ window.value.start_date = Later(First(water_dates), First(nwis_dates))
           /\ window.value.end_date = Earlier(Last(water_dates), Last(nwis_dates))

\* equal first dates, and an observed series that ends after the model
C2_Witness ==
    /\ pc # "find_start_end_dates"
    /\ Len(water_dates) > 0
    /\ Len(nwis_dates) > 0
    /\ First(water_dates) = First(nwis_dates)
    /\ Last(nwis_dates) > Last(water_dates)
    /\ Returned(window)
    /\ window.value.start_date = First(water_dates)
    /\ window.value.end_date = Last(water_dates)

---------------------------------------------------------------------------
(* Properties of main on gap-free daily series.                            *)

\* C9: for two gap-free daily series whose ranges overlap, the window is
\* [later first day, earlier last day] and each of the two subsets has
\* end - start + 1 entries: its dates and as many values.
C9_DailyWindow ==
    (PastSubsetting /\ RangesOverlap(water_dates, nwis_dates))
        => LET start == Later(First(water_dates), First(nwis_dates))
               end == Earlier(Last(water_dates), Last(nwis_dates))
           IN  /\ window = Return([start_date |-> start, end_date |-> end])
               /\ Returned(water_data_subset)
               /\ Returned(nwis_data_subset)
               /\ Len(water_data_subset.value.dates) = end - start + 1
               /\ Len(water_data_subset.value.data) = end - start + 1
               /\ Len(nwis_data_subset.value.dates) = end - start + 1
               /\ Len(nwis_data_subset.value.data) = end - start + 1

\* model days 1..10 and observed days 5..15: window 5..10, 6 entries each
C9_Witness ==
    /\ PastSubsetting
    /\ water_dates = Daily(1, 10)
    /\ nwis_dates = Daily(5, 15)
    /\ window = Return([start_date |-> 5, end_date |-> 10])
    /\ Returned(water_data_subset)
    /\ Returned(nwis_data_subset)
    /\ Len(water_data_subset.value.data) = 6
    /\ Len(nwis_data_subset.value.data) = 6
    /\ water_data_subset.value.dates = Daily(5, 10)

---------------------------------------------------------------------------
(* Properties of subset_data called directly.                              *)

\* the call of subset_data has been made
Subsetted == pc # "subset_data"

Occurrences(dates, d) == Cardinality({i \in 1..Len(dates) : dates[i] = d})

OutsideRange(dates, d) == d < First(dates) \/ d > Last(dates)

\* the entries of a series as (date, value) pairs
Pairs(dates, data) == [i \in 1..Len(dates) |-> <<dates[i], data[i]>>]

\* C5: subset_data called with dates and data of different lengths raises
\* the length-mismatch ValueError and returns no subset, whatever the
\* requested start_date and end_date.
C5_LengthMismatch ==
    (Subsetted /\ Len(water_dates) # Len(water_parameter))
        => water_data_subset = Raise("ValueError")

\* more dates than values, and a window inside the dates
C5_Witness ==
    /\ Subsetted
    /\ water_dates = <<1, 2, 3>>
    /\ Len(water_parameter) = 2
    /\ window.value.start_date = 1
    /\ window.value.end_date = 2
    /\ water_data_subset = Raise("ValueError")

\* C6, as claimed: a window that starts before the first date and ends
\* after the last date returns the full original dates and values.
C6_FullSeries ==
    ( /\ Subsetted
      /\ Len(water_dates) = Len(water_parameter)
      /\ Len(water_dates) > 0
      /\ window.value.start_date < First(water_dates)
      /\ window.value.end_date > Last(water_dates) )
        => water_data_subset =
               Return([dates |-> water_dates, data |-> water_parameter])

\* C6, amended: a start_date outside [dates[0], dates[-1]] is looked up as
\* dates[0], so a returned subset begins with the first entry of the
\* series; an end_date outside that range is looked up as dates[-1], so a
\* returned subset ends with the last entry; and when both are outside,
\* the full series is returned provided its first date and its last date
\* each occur once in dates, and the lookup raises TypeError otherwise.
C6_Clamping ==
    ( /\ Subsetted
      /\ Len(water_dates) = Len(water_parameter)
      /\ Len(water_dates) > 0 )
        => LET n == Len(water_dates)
               start_out == OutsideRange(water_dates, window.value.start_date)
               end_out == OutsideRange(water_dates, window.value.end_date)
               k == Len(water_data_subset.value.dates)
           IN  /\ (start_out /\ Returned(water_data_subset))
                      => /\ k > 0
                         /\ water_data_subset.value.dates = SubSeq(water_dates, 1, k)
                         /\ water_data_subset.value.data = SubSeq(water_parameter, 1, k)
               /\ (end_out /\ Returned(water_data_subset))
                      => /\ k > 0
                         /\ water_data_subset.value.dates = SubSeq(water_dates, n - k + 1, n)
                         /\ water_data_subset.value.data = SubSeq(water_parameter, n - k + 1, n)
               /\ (start_out /\ end_out)
                      => IF /\ Occurrences(water_dates, First(water_dates)) = 1
                            /\ Occurrences(water_dates, Last(water_dates)) = 1
                         THEN water_data_subset =
                                  Return([dates |-> water_dates, data |-> water_parameter])
                         ELSE water_data_subset = Raise("TypeError")

\* a window from before the first date to after the last, on three dates
C6_Witness ==
    /\ Subsetted
    /\ water_dates = <<2, 3, 4>>
    /\ window.value.start_date = 1
    /\ window.value.end_date = 5
    /\ water_data_subset =
           Return([dates |-> water_dates, data |-> water_parameter])

\* C7: for strictly ascending dates and a start_date <= end_date that are
\* both dates of the series, subset_data returns exactly the entries with
\* start_date <= date <= end_date, in the order of the series, each date
\* with the value it had in the input.
C7_InclusiveSlice ==
    ( /\ Subsetted
      /\ Len(water_dates) = Len(water_parameter)
      /\ IsStrictlyAscending(water_dates)
      /\ Occurrences(water_dates, window.value.start_date) > 0
      /\ Occurrences(water_dates, window.value.end_date) > 0
      /\ window.value.start_date <= window.value.end_date )
        => LET InWindow(p) == /\ window.value.start_date <= p[1]
                              /\ p[1] <= window.value.end_date
           IN  /\ Returned(water_data_subset)
               /\ Len(water_data_subset.value.dates) = Len(water_data_subset.value.data)
               /\ Pairs(water_data_subset.value.dates, water_data_subset.value.data)
                      = SelectSeq(Pairs(water_dates, water_parameter), InWindow)

\* the last two entries of a series of three dates with a gap
C7_Witness ==
    /\ Subsetted
    /\ water_dates = <<1, 2, 4>>
    /\ Len(water_parameter) = 3
    /\ window.value.start_date = 2
    /\ window.value.end_date = 4
    /\ Returned(water_data_subset)
    /\ water_data_subset.value.dates = <<2, 4>>
    /\ water_data_subset.value.data = SubSeq(water_parameter, 2, 3)

\* the second call of subset_data has been made
SubsettedAgain == pc \in {"done", "raised"} /\ Returned(water_data_subset)

\* C8, as claimed: whenever subset_data returns, subsetting the returned
\* subset to the same window returns the identical subset.
C8_Idempotent == SubsettedAgain => resubset = water_data_subset

\* C8, amended: whenever subset_data returns a subset that is not empty,
\* subsetting that subset to the same window returns the identical subset;
\* on an empty subset (start_date later than end_date) the second call
\* raises IndexError.
C8_IdempotentNonEmpty ==
    SubsettedAgain
        => IF Len(water_data_subset.value.dates) > 0
           THEN resubset = water_data_subset
           ELSE resubset = Raise("IndexError")

\* a proper subset, with an end_date clamped in both calls
C8_Witness ==
    /\ pc = "done"
    /\ water_dates = <<1, 2, 3>>
    /\ window.value.start_date = 2
    /\ window.value.end_date = 5
    /\ water_data_subset.value.dates = <<2, 3>>
    /\ resubset = water_data_subset

---------------------------------------------------------------------------
(* Properties of compare called directly.                                  *)

\* the call of compare has been made
Compared == pc # "compare"

StatKeys ==
    {"relative_error", "percent_error", "percent_difference",
     "mean_squared_error", "r_squared_coeff", "nash_sutcliffe_coeff"}

\* C3: compare called with modeled and observed arrays of different
\* lengths raises the length-mismatch ValueError before it has computed
\* any statistic, and returns no comparison record.
C3_ValueLengthMismatch ==
    (Compared /\ Len(water_parameter) # Len(nwis_parameter))
        => comp_data = Failed("ValueError", {})

\* one modeled value against two observed values, on two dates
C3_Witness ==
    /\ Compared
    /\ Len(water_parameter) = 1
    /\ Len(nwis_parameter) = 2
    /\ Len(nwis_dates) = 2
    /\ comp_data = Failed("ValueError", {})

\* C4, as claimed: compare fails whenever the dates are not of the same
\* length as the modeled and the observed values, also when these two are
\* of equal length.  Read in the claim's favour, any exception counts as
\* the failure: the property only asks that no record is returned.
C4_DatesLengthMismatch ==
    ( /\ Compared
      /\ Len(water_parameter) = Len(nwis_parameter)
      /\ Len(nwis_dates) # Len(nwis_parameter) )
        => ~Returned(comp_data)

\* C10: when compare returns, its record holds a timestep and a stats
\* dictionary in which each of the six statistics is set; when it raises,
\* the caller receives no record.
C10_AllOrNothing ==
    Compared
        => IF Returned(comp_data)
           THEN /\ "timestep" \in DOMAIN comp_data.value
                /\ comp_data.value.stats # None
                /\ \A k \in StatKeys :
                       /\ k \in DOMAIN comp_data.value.stats[1]
                       /\ comp_data.value.stats[1][k] # None
           ELSE "value" \notin DOMAIN comp_data

\* a returned record whose relative error is not finite at an observed 0
C10_Witness ==
    /\ Compared
    /\ Returned(comp_data)
    /\ Len(water_parameter) = 2
    /\ nwis_parameter[1] = Float(0)
    /\ ~IsFinite(comp_data.value.stats[1].relative_error[1][1])
    /\ populated(comp_data.value.stats[1]) = StatKeys

---------------------------------------------------------------------------
(* The timestep of a comparison record.                                    *)

\* C11: whenever compare returns for at least two dates, the timestep of
\* its record is the second date minus the first, whatever the spacing of
\* the dates after them.
C11_Timestep ==
    (Compared /\ Returned(comp_data) /\ Len(nwis_dates) >= 2)
        => comp_data.value.timestep = nwis_dates[2] - nwis_dates[1]

\* a returned record for three dates whose second gap differs from the first
C11_Witness ==
    /\ Compared
    /\ Returned(comp_data)
    /\ Len(nwis_dates) = 3
    /\ nwis_dates[3] - nwis_dates[2] # nwis_dates[2] - nwis_dates[1]
    /\ comp_data.value.timestep = nwis_dates[2] - nwis_dates[1]

---------------------------------------------------------------------------
(* Properties of the statistics on their own (SpecStats).                  *)

\* the seven statistics have been computed
Computed == stats_out # Pending

x == water_parameter

x_true == nwis_parameter

IsZero(f) == f.d # 0 /\ f.n = 0

\* the indices where the observed value is 0
ZeroObserved == {i \in 1..Len(x_true) : IsZero(x_true[i])}

\* the indices where the modeled and the observed value average to 0
ZeroAverage ==
    {i \in 1..Len(x) : x[i].n * x_true[i].d + x_true[i].n * x[i].d = 0}

\* all observed values are the same, so that the denominator of
\* nash_sutcliffe is 0
ConstantObserved == \A i, j \in 1..Len(x_true) : x_true[i] = x_true[j]

\* the statistics that a division by zero reached hold no finite value
NonFiniteWhereDegenerate(relative, percent, difference, nash) ==
    /\ \A i \in ZeroObserved : ~IsFinite(relative[i]) /\ ~IsFinite(percent[i])
    /\ \A i \in ZeroAverage : ~IsFinite(difference[i])
    /\ ConstantObserved => ~IsFinite(nash)

\* C12: a division by zero is never raised.  When an observed value is 0,
\* when a pair of values averages to 0 or when the observed values are all
\* the same, each statistic function returns, and so does compare when it
\* has two dates or more, and the statistic that divided by zero holds a
\* value that is not finite.
C12_NeverRaised ==
    /\ Computed =>
          /\ Returned(stats_out.nash_sutcliffe)
          /\ NonFiniteWhereDegenerate(stats_out.relative_error,
                                      stats_out.percent_error,
                                      stats_out.percent_difference,
                                      stats_out.nash_sutcliffe.value)
    /\ (pc \in {"done", "raised"} /\ Len(nwis_dates) >= 2) =>
          /\ Returned(comp_data)
          /\ NonFiniteWhereDegenerate(comp_data.value.stats[1].relative_error[1],
                                      comp_data.value.stats[1].percent_error[1],
                                      comp_data.value.stats[1].percent_difference[1],
                                      comp_data.value.stats[1].nash_sutcliffe_coeff[1])

---------------------------------------------------------------------------
(* The arrays handed to subset_data and compare.                           *)

\* C14: no step of main changes the arrays it hands to subset_data or to
\* compare: the dates and values of both series are the same after each
\* call of subset_data as before it, and the two subsets are the same after
\* the call of compare as before it, whether the call returns or raises.
C14_InputsKept ==
    [][ /\ inputs' = inputs
        /\ pc = "compare" =>
              /\ water_data_subset' = water_data_subset
              /\ nwis_data_subset' = nwis_data_subset ]_vars

\* compare has raised on two subsets of different lengths, one of them
\* shorter than the series it was taken from
C14_Witness ==
    /\ pc = "except"
    /\ comp_data.outcome = "ValueError"
    /\ Returned(water_data_subset)
    /\ Returned(nwis_data_subset)
    /\ Len(water_data_subset.value.dates) < Len(water_dates)

\* the float f is the fraction n / d
Equals(f, n, d) == d # 0 /\ f.d # 0 /\ f.n * d = n * f.d

\* ten times a value that has at most one decimal, as an integer
Tenths(f) == (f.n * 10) \div f.d

RECURSIVE IntSum(_)
IntSum(s) == IF s = <<>> THEN 0 ELSE s[1] + IntSum(Tail(s))

\* the squares of x[i] - x_true[i], in hundredths
SquaredTenths ==
    [i \in 1..Len(x) |->
        (Tenths(x[i]) - Tenths(x_true[i])) * (Tenths(x[i]) - Tenths(x_true[i]))]

\* C15: absolute_error is x[i] - x_true[i] at every index, and
\* mean_squared_error is the sum of the squares (x[i] - x_true[i])^2
\* divided by the number of indices (no value when there is no index).
C15_ErrorAndMeanSquare ==
    Computed =>
        /\ Len(stats_out.absolute_error) = Len(x)
        /\ \A i \in 1..Len(x) :
               Equals(stats_out.absolute_error[i],
                      x[i].n * x_true[i].d - x_true[i].n * x[i].d,
                      x[i].d * x_true[i].d)
        /\ IF Len(x) = 0 THEN ~IsFinite(stats_out.mean_squared_error)
           ELSE Equals(stats_out.mean_squared_error,
                       IntSum(SquaredTenths), 100 * Len(x))

\* errors of -1, 2 and 0, whose squares have the mean 5/3
C15_Witness ==
    /\ Computed
    /\ x = <<Float(0), Float(1), Float(2)>>
    /\ x_true = <<Float(1), Float(-1), Float(2)>>
    /\ stats_out.absolute_error = <<Float(-1), Float(2), Float(0)>>
    /\ stats_out.mean_squared_error = [n |-> 5, d |-> 3]

\* C16: at every index where x_true is not 0, relative_error is
\* (x[i] - x_true[i]) / x_true[i] and percent_error is 100 times it.
C16_PercentOfRelative ==
    Computed =>
        \A i \in 1..Len(x) :
            ~IsZero(x_true[i]) =>
                /\ Equals(stats_out.relative_error[i],
                          x[i].n * x_true[i].d - x_true[i].n * x[i].d,
                          x[i].d * x_true[i].n)
                /\ Equals(stats_out.percent_error[i],
                          100 * stats_out.relative_error[i].n,
                          stats_out.relative_error[i].d)

\* relative errors of -3 and -3/2, percent errors of -300 and -150, and no
\* finite value where x_true is 0
C16_Witness ==
    /\ Computed
    /\ x = <<Float(2), Float(-1), Float(0)>>
    /\ x_true = <<Float(-1), Float(2), Float(0)>>
    /\ stats_out.relative_error[1] = Float(-3)
    /\ stats_out.relative_error[2] = [n |-> -3, d |-> 2]
    /\ stats_out.percent_error[1] = Float(-300)
    /\ stats_out.percent_error[2] = Float(-150)

\* C17: nash_sutcliffe of a series against itself is exactly 1 whenever
\* the values of the series are not all the same.
C17_PerfectFit ==
    (Computed /\ x = x_true /\ ~ConstantObserved)
        => stats_out.nash_sutcliffe = Return(Float(1))

\* a series of three different values compared with itself
C17_Witness ==
    /\ Computed
    /\ x = x_true
    /\ x_true = <<Float(2), Float(-1), Float(0)>>
    /\ stats_out.nash_sutcliffe = Return(Float(1))

\* C18: for the sample arrays of statistics.main, mean_squared_error is
\* 19/500 (0.038) and nash_sutcliffe is 1 - 19/5984 = 5965/5984 (0.9968).
C18_SampleValues ==
    (Computed /\ x = model_data /\ x_true = observed_data)
        => /\ stats_out.mean_squared_error = [n |-> 19, d |-> 500]
           /\ stats_out.nash_sutcliffe = Return([n |-> 5965, d |-> 5984])

\* the statistics of the sample arrays, whose first error is -0.2
C18_Witness ==
    /\ Computed
    /\ Len(x) = 5
    /\ x[1] = [n |-> 111, d |-> 2]
    /\ x_true[5] = [n |-> 611, d |-> 10]
    /\ stats_out.absolute_error[1] = [n |-> -1, d |-> 5]
    /\ 500 * stats_out.mean_squared_error.n = 19 * stats_out.mean_squared_error.d

---------------------------------------------------------------------------
(* Series whose date ranges have no date in common (Spec).                 *)

\* two non-empty dates arrays, one ending before the other begins
RangesDisjoint(a, b) ==
    /\ Len(a) > 0
    /\ Len(b) > 0
    /\ Last(a) < First(b) \/ Last(b) < First(a)

\* what subset_data gives for a window whose out-of-range boundary is
\* replaced by the series' own first or last date: the full series, or a
\* TypeError when the first or the last date is repeated
FullSeries(dates, data) ==
    IF Occurrences(dates, First(dates)) = 1 /\ Occurrences(dates, Last(dates)) = 1
    THEN Return([dates |-> dates, data |-> data])
    ELSE Raise("TypeError")

\* C19, as claimed: for two series with disjoint date ranges the window has
\* start_date > end_date, and subset_data returns no subset for either
\* series.
C19_LookupFails ==
    RangesDisjoint(water_dates, nwis_dates) =>
        /\ window # Pending =>
              /\ Returned(window)
              /\ window.value.start_date > window.value.end_date
        /\ ~Returned(water_data_subset)
        /\ ~Returned(nwis_data_subset)

\* C19, amended: for two series with disjoint date ranges the window has
\* start_date > end_date, and each call of subset_data replaces the
\* boundary lying outside its series by that series' own first or last
\* date, so it returns the full series (or raises TypeError when the first
\* or last date of the series is repeated).
C19_DisjointFullSeries ==
    RangesDisjoint(water_dates, nwis_dates) =>
        /\ window # Pending =>
              /\ Returned(window)
              /\ window.value.start_date > window.value.end_date
        /\ water_data_subset # Pending =>
              water_data_subset = FullSeries(water_dates, water_parameter)
        /\ nwis_data_subset # Pending =>
              nwis_data_subset = FullSeries(nwis_dates, nwis_parameter)

\* both full series returned for disjoint ranges, and compared
C19_Witness ==
    /\ pc = "print_comp_data"
    /\ RangesDisjoint(water_dates, nwis_dates)
    /\ window.value.start_date > window.value.end_date
    /\ Len(water_dates) = 2
    /\ Len(nwis_dates) = 2
    /\ water_data_subset = Return([dates |-> water_dates, data |-> water_parameter])
    /\ nwis_data_subset = Return([dates |-> nwis_dates, data |-> nwis_parameter])
    /\ Returned(comp_data)

---------------------------------------------------------------------------
(* Window boundaries that are no date of the series (SpecSubset).          *)

\* d lies in [dates[0], dates[-1]] and is no element of dates
MissingWithin(dates, d) ==
    /\ ~OutsideRange(dates, d)
    /\ Occurrences(dates, d) = 0

\* C20: when dates and data have the same length and the start_date or
\* the end_date lies within [dates[0], dates[-1]] without being an element
\* of dates, subset_data raises at the index lookup (the TypeError of int()
\* on an empty index array) and returns no subset, not the subset from or
\* to the nearest date.
C20_MissingDateRaises ==
    ( /\ Subsetted
      /\ Len(water_dates) = Len(water_parameter)
      /\ Len(water_dates) > 0
      /\ \/ MissingWithin(water_dates, window.value.start_date)
         \/ MissingWithin(water_dates, window.value.end_date) )
        => water_data_subset = Raise("TypeError")

\* the window 1 .. 3 on the dates 1, 2, 4: the end date 3 is missing
C20_Witness ==
    /\ Subsetted
    /\ water_dates = <<1, 2, 4>>
    /\ Len(water_parameter) = 3
    /\ window.value.start_date = 1
    /\ window.value.end_date = 3
    /\ water_data_subset = Raise("TypeError")

---------------------------------------------------------------------------
(* compare on fewer than two points (SpecCompare).                         *)

\* C21: compare called with modeled values, observed values and dates of
\* one common length below two raises the IndexError of dates[1] - dates[0]
\* before it has computed any statistic, and returns no record.
C21_TooFewPoints ==
    ( /\ Compared
      /\ Len(water_parameter) = Len(nwis_parameter)
      /\ Len(nwis_dates) = Len(nwis_parameter)
      /\ Len(nwis_dates) < 2 )
        => comp_data = Failed("IndexError", {})

\* compare has raised IndexError on a single point
C21_Witness ==
    /\ Compared
    /\ Len(water_parameter) = 1
    /\ Len(nwis_parameter) = 1
    /\ Len(nwis_dates) = 1
    /\ comp_data.outcome = "IndexError"
    /\ "value" \notin DOMAIN comp_data

\* C22: in every record that compare returns, relative_error,
\* percent_error and percent_difference each hold exactly one value per
\* entry of the record's dates.
C22_OnePerDate ==
    (Compared /\ Returned(comp_data)) =>
        \A k \in {"relative_error", "percent_error", "percent_difference"} :
            Len(comp_data.value.stats[1][k][1]) = Len(comp_data.value.dates)

\* every modeled value is the mean of the observed values
ModeledIsMean ==
    \A i \in 1..Len(x) : Tenths(x[i]) * Len(x_true) = IntSum([j \in 1..Len(x_true) |-> Tenths(x_true[j])])

\* C23: for observed values that are not all the same, nash_sutcliffe is a
\* finite value of at most 1, and it is 0 when every modeled value is the
\* mean of the observed values.
C23_AtMostOne ==
    (Computed /\ ~ConstantObserved) =>
        /\ Returned(stats_out.nash_sutcliffe)
        /\ stats_out.nash_sutcliffe.value.d > 0
        /\ stats_out.nash_sutcliffe.value.n <= stats_out.nash_sutcliffe.value.d
        /\ ModeledIsMean => stats_out.nash_sutcliffe.value = Float(0)

\* observed values 2, -1, 2 with the mean 1, and the modeled values 1, 1, 1
C23_Witness ==
    /\ Computed
    /\ x_true = <<Float(2), Float(-1), Float(2)>>
    /\ x = <<Float(1), Float(1), Float(1)>>
    /\ stats_out.nash_sutcliffe = Return(Float(0))

---------------------------------------------------------------------------
(* The span selector (SpecGui).                                            *)

\* the keys among 'A', 'a', 'Q', 'q' that have been pressed, in order
ToggleKeys == SelectSeq(keys, LAMBDA k : k \in {"A", "a", "Q", "q"})

\* C24: the span selector starts deactivated, and after any key presses it
\* is active exactly when the most recent key among 'A', 'a', 'Q', 'q' was
\* 'A' or 'a' (so another key, an 'A' or 'a' while active and a 'Q' or 'q'
\* while inactive change nothing).
C24_ActiveAfterA ==
    span_visible = ( /\ ToggleKeys # <<>>
                     /\ ToggleKeys[Len(ToggleKeys)] \in {"A", "a"} )

\* activated by 'a', kept active by 'x', deactivated by 'q'
C24_Witness ==
    /\ keys = <<"a", "x", "q">>
    /\ ~span_visible

---------------------------------------------------------------------------
(* Repeated dates and reversed windows (SpecSubset).                       *)

\* the date looked up for a requested start_date
LookedUpStart(dates, d) == IF OutsideRange(dates, d) THEN First(dates) ELSE d

\* the date looked up for a requested end_date
LookedUpEnd(dates, d) == IF OutsideRange(dates, d) THEN Last(dates) ELSE d

\* subset_data was called on a non-empty series with one value per date
SubsettedSeries ==
    /\ Subsetted
    /\ Len(water_dates) = Len(water_parameter)
    /\ Len(water_dates) > 0

\* C25: on a non-empty series with one value per date, subset_data raises
\* the TypeError of the index lookup whenever the start or end date it
\* looks up occurs more than once in dates, and it returns a subset only
\* when each of the two dates occurs at exactly one position.
C25_RepeatedBoundary ==
    SubsettedSeries =>
        LET starts == Occurrences(water_dates, LookedUpStart(water_dates, window.value.start_date))
            ends == Occurrences(water_dates, LookedUpEnd(water_dates, window.value.end_date))
        IN  /\ (starts > 1 \/ ends > 1) => water_data_subset = Raise("TypeError")
            /\ Returned(water_data_subset) <=> (starts = 1 /\ ends = 1)

\* the window 1 .. 3 on the dates 1, 3, 3: the end date occurs twice
C25_Witness ==
    /\ SubsettedSeries
    /\ water_dates = <<1, 3, 3>>
    /\ window.value.start_date = 1
    /\ window.value.end_date = 3
    /\ water_data_subset = Raise("TypeError")

\* C26, as claimed: when start_date and end_date are both elements of
\* dates and start_date is later than end_date, subset_data raises nothing
\* and returns empty dates and empty data.
C26_EmptySubset ==
    ( /\ SubsettedSeries
      /\ Occurrences(water_dates, window.value.start_date) > 0
      /\ Occurrences(water_dates, window.value.end_date) > 0
      /\ window.value.start_date > window.value.end_date )
        => water_data_subset = Return([dates |-> <<>>, data |-> <<>>])

\* C26, amended: when start_date and end_date each occur exactly once in
\* dates and start_date is later than end_date, subset_data raises nothing
\* and returns empty dates and empty data.
C26_EmptySubsetUnique ==
    ( /\ SubsettedSeries
      /\ Occurrences(water_dates, window.value.start_date) = 1
      /\ Occurrences(water_dates, window.value.end_date) = 1
      /\ window.value.start_date > window.value.end_date )
        => water_data_subset = Return([dates |-> <<>>, data |-> <<>>])

\* the window 3 .. 1 on the dates 1, 2, 3
C26_Witness ==
    /\ SubsettedSeries
    /\ water_dates = <<1, 2, 3>>
    /\ window.value.start_date = 3
    /\ window.value.end_date = 1
    /\ water_data_subset = Return([dates |-> <<>>, data |-> <<>>])

---------------------------------------------------------------------------
(* The arrays of read_water (SpecRead).                                    *)

\* C27: for every file it reads, read_water returns a 'date' array and
\* parameter arrays of one common length, also when a data row has a
\* missing or non-numeric field.
C27_ParallelArrays ==
    (pc = "done" /\ Returned(water_data)) =>
        \A p \in DOMAIN Parameters :
            Len(water_data.value[Parameters[p]]) = Len(water_data.value["date"])

===========================================================================
